---- MODULE Spec2Model ----
(***************************************************************************)
(* T3Chat server: the completion handler (api/v1/chat), the message and    *)
(* chat repositories it writes through, the chat and message endpoints,    *)
(* the vendor adapters, and the user API key repository with its           *)
(* create_key and delete_key handlers.                                     *)
(*                                                                         *)
(* Every `.await` on the storage or on the vendor is one step of the       *)
(* handler that issues it, so that concurrent handlers interleave exactly  *)
(* at those points.  Option<T> is the set {} (None) or {x} (Some(x)).      *)
(* Uuid::new_v4() is a fresh number taken from a counter.  Timestamps      *)
(* (created_at, updated_at) and the always-None metadata and               *)
(* parent_message_id columns are not represented; deleted_at is            *)
(* represented by whether it is set.  Storage round trips of the           *)
(* completion handler are taken to answer, except in ApiSpec where each    *)
(* may return an error; the statements of the set_default transaction may  *)
(* each fail.  ApiSpec adds the chat and message endpoints of api/v1/chats,*)
(* DelSpec the delete_key handler, AdapterSpec the payloads of the three   *)
(* vendor adapters, StreamSpec their stream_chat, SetDefaultSpec           *)
(* concurrent set_default calls, OrdSpec an unbounded run of message       *)
(* operations one after the other, AuthSpec auth_middleware with the       *)
(* profile handlers, ListSpec list_chats with its pagination.              *)
(***************************************************************************)
EXTENDS Integers, Sequences, FiniteSets, TLC

VARIABLES chats, keys, nextKeyId, messages, nextMsgId, reqs, kops, users

vars == <<chats, keys, nextKeyId, messages, nextMsgId, reqs, kops, users>>

(***************************************************************************)
(* Bounds and input sets                                                   *)
(***************************************************************************)
MaxReqs == 2
MaxKeys == 2
MaxKeyOps == 2
\* the longest stored conversation the adapters are given
MaxLen == 2
\* the number of messages after which no further operation starts, where
\* the server handles one request after the other without end
MaxMsgs == 4

Reqs == 1..MaxReqs
KeyOps == 1..MaxKeyOps
KeyIds == 1..MaxKeys

Users == {"u1", "u2"}
\* chat 1 is owned by u1, chat 2 by u2; 3 is an id no row has
ChatIdInputs == {1, 2, 3}
ProviderInputs == {"openai", "deepseek", "ollama", "bedrock", "OpenAI"}
\* the key string each user submits
ApiKeyInputs == [u \in Users |-> IF u = "u1" THEN "sk-u1" ELSE "sk-u2"]
MessageInputs == {"hello"}
ModelIdInputs == {"gpt-4"}
\* what the vendor may report in usage.total_tokens: a u32, written as its top
\* bit hi and its low 31 bits lo (the value is hi * 2^31 + lo), here 5 and 2^31
TokenInputs == {[hi |-> 0, lo |-> 5], [hi |-> 1, lo |-> 0]}

None == {}
Some(x) == {x}

(***************************************************************************)
(* Pure helpers                                                            *)
(***************************************************************************)
\* the provider match made case-insensitive and lenient
ParseProviderIgnoreCase(s) ==
    CASE s \in {"openai", "OpenAI"} -> Some("OpenAI")
      [] s = "anthropic" -> Some("Anthropic")
      [] s = "google" -> Some("Google")
      [] s = "deepseek" -> Some("DeepSeek")
      [] s = "ollama" -> Some("Ollama")
      [] OTHER -> None

\* `match payload.model_provider.as_str()`
ParseProvider(s) ==
    CASE s = "openai" -> Some("OpenAI")
      [] s = "anthropic" -> Some("Anthropic")
      [] s = "google" -> Some("Google")
      [] s = "deepseek" -> Some("DeepSeek")
      [] s = "ollama" -> Some("Ollama")
      [] OTHER -> None

\* `tokens as i32` on a u32: the same 32 bits read as two's complement
U32AsI32(t) == IF t.hi = 1 THEN t.lo - 2147483647 - 1 ELSE t.lo

\* ProviderManager::new: one adapter per supported provider of the map
ProviderManagerNew(api_keys) ==
    [p \in {q \in DOMAIN api_keys : q \in {"OpenAI", "Anthropic", "Google"}}
        |-> api_keys[p]]

\* ProviderManager::get_provider
GetProvider(manager, p) ==
    IF p \in DOMAIN manager THEN Some(manager[p]) ELSE None

\* the role match of OpenAIProvider::chat and AnthropicProvider::chat
RoleName(role) ==
    CASE role = "user" -> "user"
      [] role = "assistant" -> "assistant"
      [] role = "system" -> "system"

\* the role match of GoogleProvider::chat
GoogleRoleName(role) ==
    CASE role = "user" -> "user"
      [] role = "assistant" -> "model"
      [] role = "system" -> "user"

\* OpenAIProvider::chat: `messages` of the OpenAIRequest
OpenAIMessages(request_messages) ==
    [i \in 1..Len(request_messages) |->
        [role |-> RoleName(request_messages[i].role),
         content |-> request_messages[i].content]]

\* AnthropicProvider::chat: `messages` of the AnthropicRequest
AnthropicMessages(request_messages) ==
    [i \in 1..Len(request_messages) |->
        [role |-> RoleName(request_messages[i].role),
         content |-> request_messages[i].content]]

\* a Google adapter that leaves system messages out instead of folding
\* them into the user role
GoogleContentsDropSystem(request_messages) ==
    LET kept == SelectSeq(request_messages, LAMBDA m : m.role /= "system")
    IN  [i \in 1..Len(kept) |->
            [role |-> GoogleRoleName(kept[i].role),
             parts |-> <<[text |-> kept[i].content]>>]]

\* GoogleProvider::chat: `contents` of the GoogleRequest
GoogleContents(request_messages) ==
    [i \in 1..Len(request_messages) |->
        [role |-> GoogleRoleName(request_messages[i].role),
         parts |-> <<[text |-> request_messages[i].content]>>]]

\* ProviderWrapper::chat: the message list the chosen adapter sends
VendorPayload(provider, request_messages) ==
    CASE provider = "OpenAI" -> OpenAIMessages(request_messages)
      [] provider = "Anthropic" -> AnthropicMessages(request_messages)
      [] provider = "Google" -> GoogleContents(request_messages)

(***************************************************************************)
(* Repository reads                                                        *)
(***************************************************************************)
\* the chat lookup without its deleted_at filter
ChatGetWithDeleted(id, user_id) ==
    IF id \in DOMAIN chats /\ chats[id].user_id = user_id
    THEN Some(chats[id]) ELSE None

\* ChatRepository::get
ChatGet(id, user_id) ==
    IF id \in DOMAIN chats /\ chats[id].user_id = user_id
       /\ ~chats[id].deleted_at
    THEN Some(chats[id]) ELSE None

\* the credential query without its user_id filter
GetDefaultAnyUser(user_id, provider) ==
    {k \in keys : k.provider = provider /\ k.is_default}

\* the credential query without its is_default filter
GetDefaultIgnoringFlag(user_id, provider) ==
    {k \in keys : k.user_id = user_id /\ k.provider = provider}

\* the rows the query of get_default_for_provider selects; `.first()` takes
\* one of them, in no stated order
GetDefaultForProvider(user_id, provider) ==
    {k \in keys : k.user_id = user_id /\ k.provider = provider /\ k.is_default}

ChatMessages(chat_id) == {m \in messages : m.chat_id = chat_id}

\* the sequence query without its chat_id filter
GetNextSequenceNumberAllChats(chat_id) ==
    LET seqs == {m.sequence_number : m \in messages}
    IN  (IF seqs = {} THEN 0 ELSE CHOOSE s \in seqs : \A t \in seqs : t <= s) + 1

\* the sequence query counting the rows of the chat instead of taking their max
GetNextSequenceNumberByCount(chat_id) ==
    Cardinality(ChatMessages(chat_id)) + 1

\* MessageRepository::get_next_sequence_number
GetNextSequenceNumber(chat_id) ==
    LET seqs == {m.sequence_number : m \in ChatMessages(chat_id)}
        max_seq == IF seqs = {} THEN None
                   ELSE Some(CHOOSE s \in seqs : \A t \in seqs : t <= s)
    IN  (IF max_seq = None THEN 0 ELSE CHOOSE s \in max_seq : TRUE) + 1

RECURSIVE OrderBySequence(_)
\* every listing of the rows S in ascending sequence_number (rows with equal
\* numbers come in either order)
OrderBySequence(S) ==
    IF S = {} THEN {<<>>}
    ELSE LET lo == {x \in S : \A y \in S : x.sequence_number <= y.sequence_number}
         IN  UNION {{<<x>> \o t : t \in OrderBySequence(S \ {x})} : x \in lo}

RECURSIVE AnyOrder(_)
\* every listing of the rows S, in any order
AnyOrder(S) ==
    IF S = {} THEN {<<>>}
    ELSE UNION {{<<x>> \o t : t \in AnyOrder(S \ {x})} : x \in S}

\* list_by_chat without its ORDER BY
ListByChatUnordered(chat_id, user_id) ==
    IF chat_id \in DOMAIN chats /\ chats[chat_id].user_id = user_id
    THEN AnyOrder(ChatMessages(chat_id))
    ELSE None

\* MessageRepository::list_by_chat: None stands for Err("Chat not found")
ListByChat(chat_id, user_id) ==
    IF chat_id \in DOMAIN chats /\ chats[chat_id].user_id = user_id
    THEN OrderBySequence(ChatMessages(chat_id))
    ELSE None

(***************************************************************************)
(* The completion handler `chat`                                           *)
(***************************************************************************)
IdleReq ==
    [pc |-> "idle", op |-> "", user_id |-> "", chat_id |-> 0, message |-> "",
     model_provider |-> "", model_id |-> "", provider |-> "",
     api_key |-> None, ai_messages |-> <<>>, vendor_key |-> None,
     vendor_calls |-> 0, payload |-> <<>>, ai_response |-> None,
     role |-> "", title |-> "", message_id |-> 0, created |-> None,
     user_seq |-> 0, assistant_seq |-> 0,
     user_message |-> None, assistant_message |-> None,
     email |-> None, user |-> None, display_name |-> None, image_url |-> None,
     pagination |-> None, total |-> 0, offset |-> None, overflowed |-> FALSE,
     panicked |-> FALSE,
     status |-> 0, response |-> None]

InFlight(r) == reqs[r].pc \notin {"idle", "done"}

\* `return Err(status)` / the `?` on a mapped error
Fail(r, rec, status) ==
    reqs' = [reqs EXCEPT ![r] = [rec EXCEPT !.pc = "done", !.status = status]]

\* NewMessage::from(CreateMessageDto): fresh id, no token usage yet
NewMessage(id, chat_id, role, content, sequence_number) ==
    [id |-> id, chat_id |-> chat_id, role |-> role, content |-> content,
     sequence_number |-> sequence_number,
     tokens_used |-> None, model_used |-> None]

\* lines 41-57: the request arrives; chat lookup, then the provider match
\* (requests are numbered in their order of arrival)
ChatValidate(r) ==
    /\ reqs[r].pc = "idle"
    /\ \A q \in Reqs : q < r => reqs[q].pc /= "idle"
    /\ \E user_id \in Users, chat_id \in ChatIdInputs,
          model_provider \in ProviderInputs, message \in MessageInputs,
          model_id \in ModelIdInputs :
         LET rec == [IdleReq EXCEPT !.op = "chat",
                        !.user_id = user_id, !.chat_id = chat_id,
                        !.model_provider = model_provider,
                        !.message = message, !.model_id = model_id]
         IN  IF ChatGet(chat_id, user_id) = None
             THEN Fail(r, rec, 404)
             ELSE IF ParseProvider(model_provider) = None
             THEN Fail(r, rec, 400)
             ELSE reqs' = [reqs EXCEPT ![r] =
                     [rec EXCEPT !.pc = "resolving",
                        !.provider = CHOOSE p \in ParseProvider(model_provider) : TRUE]]
    /\ UNCHANGED <<chats, keys, nextKeyId, messages, nextMsgId, kops, users>>

\* lines 59-68: get_default_for_provider
ChatResolveCredential(r) ==
    /\ reqs[r].pc = "resolving"
    /\ LET found == GetDefaultForProvider(reqs[r].user_id, reqs[r].provider)
       IN  IF found = {}
           THEN Fail(r, reqs[r], 400)
           ELSE \E k \in found :
                  reqs' = [reqs EXCEPT ![r].pc = "assembling",
                                       ![r].api_key = Some(k)]
    /\ UNCHANGED <<chats, keys, nextKeyId, messages, nextMsgId, kops, users>>

\* a handler that records the user turn while it assembles the context, before
\* the vendor is called
ChatAssembleWritesFirst(r) ==
    /\ reqs[r].pc = "assembling"
    /\ LET listed == ListByChat(reqs[r].chat_id, reqs[r].user_id)
           api_key == CHOOSE k \in reqs[r].api_key : TRUE
           api_keys == [p \in {reqs[r].provider} |-> api_key.encrypted_key]
           ai_provider == GetProvider(ProviderManagerNew(api_keys), reqs[r].provider)
       IN  IF listed = None
           THEN Fail(r, reqs[r], 500) /\ UNCHANGED <<messages, nextMsgId>>
           ELSE \E msgs \in listed :
                  LET ai_messages ==
                          [i \in 1..Len(msgs) |->
                              [role |-> msgs[i].role, content |-> msgs[i].content]]
                          \o <<[role |-> "user", content |-> reqs[r].message]>>
                      rec == [reqs[r] EXCEPT !.ai_messages = ai_messages]
                  IN  IF ai_provider = None
                      THEN Fail(r, rec, 400) /\ UNCHANGED <<messages, nextMsgId>>
                      ELSE /\ messages' = messages \cup
                                 {NewMessage(nextMsgId, rec.chat_id, "user",
                                     rec.message, GetNextSequenceNumber(rec.chat_id))}
                           /\ nextMsgId' = nextMsgId + 1
                           /\ reqs' = [reqs EXCEPT ![r] =
                                 [rec EXCEPT !.pc = "dispatching",
                                             !.vendor_key = ai_provider,
                                             !.user_message = Some(nextMsgId)]]
    /\ UNCHANGED <<chats, keys, nextKeyId, kops, users>>

\* lines 70-110: list_by_chat, the context, the single-provider manager
ChatAssemble(r) ==
    /\ reqs[r].pc = "assembling"
    /\ LET listed == ListByChat(reqs[r].chat_id, reqs[r].user_id)
           api_key == CHOOSE k \in reqs[r].api_key : TRUE
           api_keys == [p \in {reqs[r].provider} |-> api_key.encrypted_key]
           ai_provider == GetProvider(ProviderManagerNew(api_keys), reqs[r].provider)
       IN  IF listed = None
           THEN Fail(r, reqs[r], 500)
           ELSE \E msgs \in listed :
                  LET ai_messages ==
                          [i \in 1..Len(msgs) |->
                              [role |-> msgs[i].role, content |-> msgs[i].content]]
                          \o <<[role |-> "user", content |-> reqs[r].message]>>
                      rec == [reqs[r] EXCEPT !.ai_messages = ai_messages]
                  IN  IF ai_provider = None
                      THEN Fail(r, rec, 400)
                      ELSE reqs' = [reqs EXCEPT ![r] =
                              [rec EXCEPT !.pc = "dispatching",
                                          !.vendor_key = ai_provider]]
    /\ UNCHANGED <<chats, keys, nextKeyId, messages, nextMsgId, kops, users>>

\* what ai_provider.chat() may return: None for Err, else the ChatResponse
ProviderResults ==
    {None} \cup
    {Some([content |-> "hi", model |-> "gpt-4-0613",
           tokens_used |-> t, finish_reason |-> Some("stop")]) :
        t \in {None} \cup {Some(n) : n \in TokenInputs}}

\* the vendor call of a handler that records the user turn even when the
\* vendor fails
ChatDispatchKeepsDraft(r) ==
    /\ reqs[r].pc = "dispatching"
    /\ \E result \in ProviderResults :
         LET rec == [reqs[r] EXCEPT !.vendor_calls = @ + 1,
                        !.payload = VendorPayload(reqs[r].provider,
                                                  reqs[r].ai_messages)]
         IN  IF result = None
             THEN /\ messages' = messages \cup
                        {NewMessage(nextMsgId, rec.chat_id, "user", rec.message,
                                    GetNextSequenceNumber(rec.chat_id))}
                  /\ nextMsgId' = nextMsgId + 1
                  /\ Fail(r, [rec EXCEPT !.user_message = Some(nextMsgId)], 500)
             ELSE /\ reqs' = [reqs EXCEPT ![r] =
                        [rec EXCEPT !.pc = "user_seq", !.ai_response = result]]
                  /\ UNCHANGED <<messages, nextMsgId>>
    /\ UNCHANGED <<chats, keys, nextKeyId, kops, users>>

\* a vendor call that is made again when it fails (once more at most)
ChatDispatchRetries(r) ==
    /\ reqs[r].pc = "dispatching"
    /\ \E result \in ProviderResults :
         LET rec == [reqs[r] EXCEPT !.vendor_calls = @ + 1,
                        !.payload = VendorPayload(reqs[r].provider,
                                                  reqs[r].ai_messages)]
         IN  IF result = None
             THEN IF rec.vendor_calls < 2
                  THEN reqs' = [reqs EXCEPT ![r] = rec]
                  ELSE Fail(r, rec, 500)
             ELSE reqs' = [reqs EXCEPT ![r] =
                     [rec EXCEPT !.pc = "user_seq", !.ai_response = result]]
    /\ UNCHANGED <<chats, keys, nextKeyId, messages, nextMsgId, kops, users>>

\* lines 112-115: the vendor call
ChatDispatch(r) ==
    /\ reqs[r].pc = "dispatching"
    /\ \E result \in ProviderResults :
         LET rec == [reqs[r] EXCEPT !.vendor_calls = @ + 1,
                        !.payload = VendorPayload(reqs[r].provider,
                                                  reqs[r].ai_messages)]
         IN  IF result = None
             THEN Fail(r, rec, 500)
             ELSE reqs' = [reqs EXCEPT ![r] =
                     [rec EXCEPT !.pc = "user_seq", !.ai_response = result]]
    /\ UNCHANGED <<chats, keys, nextKeyId, messages, nextMsgId, kops, users>>

\* an OpenAI stream whose only chunk is not marked done
OpenAIStreamChatNeverDone(result) ==
    IF result = None THEN None
    ELSE LET response == CHOOSE a \in result : TRUE
         IN  Some(<<[content |-> response.content, done |-> FALSE,
                     model |-> Some(response.model)]>>)

\* OpenAIProvider::stream_chat: chat(request).await?, then a stream of one
\* chunk; None stands for Err
OpenAIStreamChat(result) ==
    IF result = None THEN None
    ELSE LET response == CHOOSE a \in result : TRUE
         IN  Some(<<[content |-> response.content, done |-> TRUE,
                     model |-> Some(response.model)]>>)

\* AnthropicProvider::stream_chat
AnthropicStreamChat(result) ==
    IF result = None THEN None
    ELSE LET response == CHOOSE a \in result : TRUE
         IN  Some(<<[content |-> response.content, done |-> TRUE,
                     model |-> Some(response.model)]>>)

\* GoogleProvider::stream_chat
GoogleStreamChat(result) ==
    IF result = None THEN None
    ELSE LET response == CHOOSE a \in result : TRUE
         IN  Some(<<[content |-> response.content, done |-> TRUE,
                     model |-> Some(response.model)]>>)

\* ProviderWrapper::stream_chat: the chosen adapter's stream, boxed
StreamChat(provider, result) ==
    CASE provider = "OpenAI" -> OpenAIStreamChat(result)
      [] provider = "Anthropic" -> AnthropicStreamChat(result)
      [] provider = "Google" -> GoogleStreamChat(result)

\* the adapter is called through stream_chat instead of chat: the caller gets
\* an error or the chunks
StreamDispatch(r) ==
    /\ reqs[r].pc = "dispatching"
    /\ \E result \in ProviderResults :
         LET rec == [reqs[r] EXCEPT !.op = "stream_chat",
                        !.vendor_calls = @ + 1,
                        !.payload = VendorPayload(reqs[r].provider,
                                                  reqs[r].ai_messages),
                        !.ai_response = result]
             stream == StreamChat(reqs[r].provider, result)
         IN  reqs' = [reqs EXCEPT ![r] =
                [rec EXCEPT !.pc = "done",
                            !.status = IF stream = None THEN 500 ELSE 200,
                            !.response = stream]]
    /\ UNCHANGED <<chats, keys, nextKeyId, messages, nextMsgId, kops, users>>

\* lines 118-122
ChatUserSeq(r) ==
    /\ reqs[r].pc = "user_seq"
    /\ reqs' = [reqs EXCEPT ![r].pc = "user_insert",
                    ![r].user_seq = GetNextSequenceNumber(reqs[r].chat_id)]
    /\ UNCHANGED <<chats, keys, nextKeyId, messages, nextMsgId, kops, users>>

\* lines 124-135: MessageRepository::create of the user turn
ChatInsertUser(r) ==
    /\ reqs[r].pc = "user_insert"
    /\ messages' = messages \cup
          {NewMessage(nextMsgId, reqs[r].chat_id, "user", reqs[r].message,
                      reqs[r].user_seq)}
    /\ nextMsgId' = nextMsgId + 1
    /\ reqs' = [reqs EXCEPT ![r].pc = "assistant_seq",
                            ![r].user_message = Some(nextMsgId)]
    /\ UNCHANGED <<chats, keys, nextKeyId, kops, users>>

\* lines 138-142
ChatAssistantSeq(r) ==
    /\ reqs[r].pc = "assistant_seq"
    /\ reqs' = [reqs EXCEPT ![r].pc = "assistant_insert",
                    ![r].assistant_seq = GetNextSequenceNumber(reqs[r].chat_id)]
    /\ UNCHANGED <<chats, keys, nextKeyId, messages, nextMsgId, kops, users>>

\* Ok(Json(ChatCompletionResponse {..})), lines 166-171
Respond(rec) ==
    LET ai_response == CHOOSE a \in rec.ai_response : TRUE
    IN  [rec EXCEPT !.pc = "done", !.status = 200,
            !.response = Some([content |-> ai_response.content,
                               model |-> ai_response.model,
                               tokens_used |-> ai_response.tokens_used,
                               finish_reason |-> ai_response.finish_reason])]

\* lines 144-155: MessageRepository::create of the assistant turn; without
\* reported tokens the handler answers at once
ChatInsertAssistant(r) ==
    /\ reqs[r].pc = "assistant_insert"
    /\ LET ai_response == CHOOSE a \in reqs[r].ai_response : TRUE
           rec == [reqs[r] EXCEPT !.assistant_message = Some(nextMsgId)]
       IN  /\ messages' = messages \cup
                 {NewMessage(nextMsgId, reqs[r].chat_id, "assistant",
                             ai_response.content, reqs[r].assistant_seq)}
           /\ reqs' = [reqs EXCEPT ![r] =
                         IF ai_response.tokens_used = None
                         THEN Respond(rec)
                         ELSE [rec EXCEPT !.pc = "tokens"]]
    /\ nextMsgId' = nextMsgId + 1
    /\ UNCHANGED <<chats, keys, nextKeyId, kops, users>>

\* an update_tokens_used that also moves the row to the end of its chat
UpdateTokensUsedRenumbers(id, tokens, model) ==
    {IF m.id = id
     THEN [m EXCEPT !.tokens_used = Some(tokens), !.model_used = Some(model),
                    !.sequence_number = GetNextSequenceNumber(m.chat_id)]
     ELSE m : m \in messages}

\* MessageRepository::update_tokens_used
UpdateTokensUsed(id, tokens, model) ==
    {IF m.id = id
     THEN [m EXCEPT !.tokens_used = Some(tokens), !.model_used = Some(model)]
     ELSE m : m \in messages}

\* lines 157-171
ChatUpdateTokens(r) ==
    /\ reqs[r].pc = "tokens"
    /\ LET ai_response == CHOOSE a \in reqs[r].ai_response : TRUE
           tokens == CHOOSE t \in ai_response.tokens_used : TRUE
           id == CHOOSE i \in reqs[r].assistant_message : TRUE
       IN  IF \E m \in messages : m.id = id
           THEN /\ messages' = UpdateTokensUsed(id, U32AsI32(tokens), ai_response.model)
                /\ reqs' = [reqs EXCEPT ![r] = Respond(reqs[r])]
           ELSE /\ Fail(r, reqs[r], 500)
                /\ UNCHANGED messages
    /\ UNCHANGED <<chats, keys, nextKeyId, nextMsgId, kops, users>>

\* ChatRepository::delete through the delete_chat handler (soft delete)
DeleteChat(user_id, id) ==
    /\ ChatGet(id, user_id) /= None
    /\ chats' = [chats EXCEPT ![id].deleted_at = TRUE]
    /\ UNCHANGED <<keys, nextKeyId, messages, nextMsgId, reqs, kops, users>>

\* a storage round trip of the handler returns an error: every one of them is
\* mapped to 500 and nothing already written is taken back
ChatStorageFail(r) ==
    /\ reqs[r].pc \in {"resolving", "assembling", "user_seq", "user_insert",
                       "assistant_seq", "assistant_insert", "tokens"}
    /\ Fail(r, reqs[r], 500)
    /\ UNCHANGED <<chats, keys, nextKeyId, messages, nextMsgId, kops, users>>

(***************************************************************************)
(* The chat and message endpoints (api/v1/chats).  The check and the write *)
(* of one repository call are one step.                                    *)
(***************************************************************************)
\* the optional role string a create_message request may carry
RoleInputs == {None, Some("system"), Some("tool")}
TitleInputs == {"renamed"}
ContentInputs == {"edited"}
MessageIdInputs == {1, 2}

\* the request is the next to arrive
Arrives(r) ==
    /\ reqs[r].pc = "idle"
    /\ \A q \in Reqs : q < r => reqs[q].pc /= "idle"

\* `match payload.role.as_deref()` of create_message
ParseRole(role) ==
    CASE role = Some("system") -> "system"
      [] role = Some("assistant") -> "assistant"
      [] OTHER -> "user"

\* ChatRepository::list_messages: None stands for Err("Chat not found")
ListMessages(chat_id, user_id) ==
    IF chat_id \in DOMAIN chats /\ chats[chat_id].user_id = user_id
    THEN OrderBySequence(ChatMessages(chat_id))
    ELSE None

\* the handler returns `status` (and a body, when it has one)
Answer(r, rec, status, response) ==
    reqs' = [reqs EXCEPT ![r] =
               [rec EXCEPT !.pc = "done", !.status = status, !.response = response]]

\* create_message, lines 79-90: the chat lookup, then the role match
CreateMessageValidate(r) ==
    /\ Arrives(r)
    /\ \E user_id \in Users, chat_id \in ChatIdInputs, role \in RoleInputs,
          content \in MessageInputs :
         LET rec == [IdleReq EXCEPT !.op = "create_message",
                        !.user_id = user_id, !.chat_id = chat_id,
                        !.message = content, !.role = ParseRole(role)]
         IN  IF ChatGet(chat_id, user_id) = None
             THEN Fail(r, rec, 404)
             ELSE reqs' = [reqs EXCEPT ![r] = [rec EXCEPT !.pc = "cm_seq"]]
    /\ UNCHANGED <<chats, keys, nextKeyId, messages, nextMsgId, kops, users>>

\* create_message, lines 92-96
CreateMessageSeq(r) ==
    /\ reqs[r].pc = "cm_seq"
    /\ reqs' = [reqs EXCEPT ![r].pc = "cm_insert",
                    ![r].user_seq = GetNextSequenceNumber(reqs[r].chat_id)]
    /\ UNCHANGED <<chats, keys, nextKeyId, messages, nextMsgId, kops, users>>

\* create_message, lines 98-111: ChatRepository::create_message
CreateMessageInsert(r) ==
    /\ reqs[r].pc = "cm_insert"
    /\ messages' = messages \cup
          {NewMessage(nextMsgId, reqs[r].chat_id, reqs[r].role, reqs[r].message,
                      reqs[r].user_seq)}
    /\ nextMsgId' = nextMsgId + 1
    /\ Answer(r, [reqs[r] EXCEPT !.created = Some(nextMsgId)], 200, None)
    /\ UNCHANGED <<chats, keys, nextKeyId, kops, users>>

\* get_messages: ChatRepository::list_messages, its error mapped to 500
GetMessages(r) ==
    /\ Arrives(r)
    /\ \E user_id \in Users, chat_id \in ChatIdInputs :
         LET rec == [IdleReq EXCEPT !.op = "get_messages",
                        !.user_id = user_id, !.chat_id = chat_id]
             listed == ListMessages(chat_id, user_id)
         IN  IF listed = None
             THEN Fail(r, rec, 500)
             ELSE \E msgs \in listed : Answer(r, rec, 200, Some(msgs))
    /\ UNCHANGED <<chats, keys, nextKeyId, messages, nextMsgId, kops, users>>

\* update_chat: ChatRepository::update, its error mapped to 500
UpdateChat(r) ==
    /\ Arrives(r)
    /\ \E user_id \in Users, id \in ChatIdInputs, title \in TitleInputs :
         LET rec == [IdleReq EXCEPT !.op = "update_chat", !.user_id = user_id,
                        !.chat_id = id, !.title = title]
         IN  IF ChatGet(id, user_id) = None
             THEN Fail(r, rec, 500) /\ UNCHANGED chats
             ELSE /\ chats' = [chats EXCEPT ![id].title = title]
                  /\ Answer(r, rec, 200, None)
    /\ UNCHANGED <<keys, nextKeyId, messages, nextMsgId, kops, users>>

\* delete_chat: ChatRepository::delete, its error mapped to 500
DeleteChatEndpoint(r) ==
    /\ Arrives(r)
    /\ \E user_id \in Users, id \in ChatIdInputs :
         LET rec == [IdleReq EXCEPT !.op = "delete_chat", !.user_id = user_id,
                        !.chat_id = id]
         IN  IF ChatGet(id, user_id) = None
             THEN Fail(r, rec, 500) /\ UNCHANGED chats
             ELSE /\ chats' = [chats EXCEPT ![id].deleted_at = TRUE]
                  /\ Answer(r, rec, 204, None)
    /\ UNCHANGED <<keys, nextKeyId, messages, nextMsgId, kops, users>>

\* update_message: ChatRepository::update_message, its error mapped to 500
UpdateMessage(r) ==
    /\ Arrives(r)
    /\ \E user_id \in Users, chat_id \in ChatIdInputs, id \in MessageIdInputs,
          content \in ContentInputs :
         LET rec == [IdleReq EXCEPT !.op = "update_message", !.user_id = user_id,
                        !.chat_id = chat_id, !.message_id = id,
                        !.message = content]
         IN  IF \/ ChatGet(chat_id, user_id) = None
                \/ ~\E m \in messages : m.id = id /\ m.chat_id = chat_id
             THEN Fail(r, rec, 500) /\ UNCHANGED messages
             ELSE /\ messages' = {IF m.id = id THEN [m EXCEPT !.content = content]
                                  ELSE m : m \in messages}
                  /\ Answer(r, rec, 200, None)
    /\ UNCHANGED <<chats, keys, nextKeyId, nextMsgId, kops, users>>

\* delete_message: ChatRepository::delete_message, its error mapped to 500
DeleteMessage(r) ==
    /\ Arrives(r)
    /\ \E user_id \in Users, chat_id \in ChatIdInputs, id \in MessageIdInputs :
         LET rec == [IdleReq EXCEPT !.op = "delete_message", !.user_id = user_id,
                        !.chat_id = chat_id, !.message_id = id]
         IN  IF \/ ChatGet(chat_id, user_id) = None
                \/ ~\E m \in messages : m.id = id /\ m.chat_id = chat_id
             THEN Fail(r, rec, 500) /\ UNCHANGED messages
             ELSE /\ messages' = {m \in messages : m.id /= id}
                  /\ Answer(r, rec, 204, None)
    /\ UNCHANGED <<chats, keys, nextKeyId, nextMsgId, kops, users>>

\* clear_messages: ChatRepository::clear_messages, its error mapped to 500
ClearMessages(r) ==
    /\ Arrives(r)
    /\ \E user_id \in Users, chat_id \in ChatIdInputs :
         LET rec == [IdleReq EXCEPT !.op = "clear_messages", !.user_id = user_id,
                        !.chat_id = chat_id]
         IN  IF ChatGet(chat_id, user_id) = None
             THEN Fail(r, rec, 500) /\ UNCHANGED messages
             ELSE /\ messages' = {m \in messages : m.chat_id /= chat_id}
                  /\ Answer(r, rec, 204, None)
    /\ UNCHANGED <<chats, keys, nextKeyId, nextMsgId, kops, users>>

(***************************************************************************)
(* list_chats and its pagination.  A u64 is the sequence of its eight      *)
(* bytes, lowest first, so that the arithmetic keeps its 64 bits.         *)
(***************************************************************************)
U64Index == 1..8

\* the u64 of a number below 2^16
U64Of(n) ==
    [i \in U64Index |-> IF i = 1 THEN n % 256 ELSE IF i = 2 THEN n \div 256 ELSE 0]

\* 2^63
U64HighBit == [i \in U64Index |-> IF i = 8 THEN 128 ELSE 0]

\* u64::MAX
U64Max == [i \in U64Index |-> 255]

\* the values of `page` and `page_size` a query string may carry
U64Inputs == {U64Of(0), U64Of(1), U64Of(2), U64Of(20), U64HighBit, U64Max}

\* `x - 1` with wrap-around: the borrow runs up to the lowest non-zero byte
WrappingSubOne(x) ==
    IF x = U64Of(0) THEN U64Max
    ELSE LET k == CHOOSE i \in U64Index :
                    x[i] /= 0 /\ \A j \in U64Index : j < i => x[j] = 0
         IN  [i \in U64Index |->
                IF i < k THEN 255 ELSE IF i = k THEN x[i] - 1 ELSE x[i]]

RECURSIVE SumOver(_, _)
SumOver(f, S) ==
    IF S = {} THEN 0
    ELSE LET i == CHOOSE j \in S : TRUE IN f[i] + SumOver(f, S \ {i})

\* the sum of the byte products that land on byte k of a * b
Column(a, b, k) ==
    LET idx == {i \in U64Index : k + 1 - i \in U64Index}
    IN  SumOver([i \in idx |-> a[i] * b[k + 1 - i]], idx)

RECURSIVE WideMul(_, _, _, _)
\* the sixteen bytes of the full product a * b, from byte k on, given the carry
WideMul(a, b, k, carry) ==
    IF k > 16 THEN <<>>
    ELSE LET t == (IF k <= 15 THEN Column(a, b, k) ELSE 0) + carry
         IN  <<t % 256>> \o WideMul(a, b, k + 1, t \div 256)

\* `a * b` with wrap-around: the low eight bytes of the product
WrappingMul(a, b) == SubSeq(WideMul(a, b, 1, 0), 1, 8)

\* the product does not fit 64 bits
MulOverflows(a, b) == \E i \in 9..16 : WideMul(a, b, 1, 0)[i] /= 0

\* `x as i64` is negative: the cast keeps the bits, the top one is the sign
AsI64Negative(x) == x[8] >= 128

\* a non-negative count for OFFSET / LIMIT, cut at 256 (no table of the
\* model holds that many rows)
RowCount(x) == IF \A i \in 2..8 : x[i] = 0 THEN x[1] ELSE 256

\* the non-deleted chats of the user (chat ids)
OwnChats(user_id) ==
    {id \in DOMAIN chats : chats[id].user_id = user_id /\ ~chats[id].deleted_at}

\* list_chats, lines 135-138, and ChatRepository::list, lines 65-79: the
\* pagination exists only when both parameters are sent; the count query
ListChatsCount(r) ==
    /\ Arrives(r)
    /\ \E user_id \in Users, page \in {None} \cup {Some(x) : x \in U64Inputs},
          page_size \in {None} \cup {Some(x) : x \in U64Inputs} :
         LET pagination ==
               IF page = None \/ page_size = None THEN None
               ELSE Some([page |-> CHOOSE x \in page : TRUE,
                          page_size |-> CHOOSE x \in page_size : TRUE])
         IN  reqs' = [reqs EXCEPT ![r] =
                        [IdleReq EXCEPT !.pc = "lc_load", !.op = "list_chats",
                           !.user_id = user_id, !.pagination = pagination,
                           !.total = Cardinality(OwnChats(user_id))]]
    /\ UNCHANGED <<chats, keys, nextKeyId, messages, nextMsgId, kops, users>>

\* ChatRepository::list, lines 81-102: offset and limit, then the load.
\* With overflow checks compiled in, an underflow or overflow panics and
\* the request gets no answer; without them the value wraps.  Postgres
\* refuses a negative OFFSET or LIMIT, which list_chats maps to 500.
ListChatsLoad(r) ==
    /\ reqs[r].pc = "lc_load"
    /\ \E overflow_checks \in BOOLEAN, listed \in AnyOrder(OwnChats(reqs[r].user_id)) :
         IF reqs[r].pagination = None
         THEN Answer(r, reqs[r], 200, Some(listed))
         ELSE LET p == CHOOSE x \in reqs[r].pagination : TRUE
                  underflow == p.page = U64Of(0)
                  page_minus_one == WrappingSubOne(p.page)
                  overflow == MulOverflows(page_minus_one, p.page_size)
                  offset == WrappingMul(page_minus_one, p.page_size)
                  rec == [reqs[r] EXCEPT !.overflowed = underflow \/ overflow]
              IN  IF overflow_checks /\ (underflow \/ overflow)
                  THEN reqs' = [reqs EXCEPT ![r] =
                                  [rec EXCEPT !.pc = "done", !.panicked = TRUE]]
                  ELSE IF AsI64Negative(offset) \/ AsI64Negative(p.page_size)
                  THEN Fail(r, [rec EXCEPT !.offset = Some(offset)], 500)
                  ELSE LET skip == IF RowCount(offset) < Len(listed)
                                   THEN RowCount(offset) ELSE Len(listed)
                           rest == SubSeq(listed, skip + 1, Len(listed))
                           take == IF RowCount(p.page_size) < Len(rest)
                                   THEN RowCount(p.page_size) ELSE Len(rest)
                       IN  Answer(r, [rec EXCEPT !.offset = Some(offset)], 200,
                                  Some(SubSeq(rest, 1, take)))
    /\ UNCHANGED <<chats, keys, nextKeyId, messages, nextMsgId, kops, users>>

\* ChatRepository::list: the connection or a query fails, mapped to 500
ListChatsFail(r) ==
    /\ reqs[r].pc = "lc_load"
    /\ Fail(r, reqs[r], 500)
    /\ UNCHANGED <<chats, keys, nextKeyId, messages, nextMsgId, kops, users>>

(***************************************************************************)
(* Users: auth_middleware, UserRepository and the profile handlers         *)
(***************************************************************************)
\* the identities a verified token may carry: u2 also signs in anonymously
FirebaseUsers ==
    {[id |-> "u1", email |-> Some("u1@mail")],
     [id |-> "u2", email |-> Some("u2@mail")],
     [id |-> "u2", email |-> None]}

DisplayNameInputs == {None, Some("Ann")}
ImageUrlInputs == {None, Some("pic")}

\* NewUser::from(CreateUserDto)
NewUser(id, email, display_name, image_url) ==
    [id |-> id, email |-> email, display_name |-> display_name,
     image_url |-> image_url]

\* the rows of the users that own the stored chats
StoredUsers ==
    {NewUser(id, Some(id \o "@mail"), None, None) : id \in Users}

\* UserRepository::get
UserGet(id) == {u \in users : u.id = id}

\* UserRepository::upsert: INSERT .. ON CONFLICT (id) DO UPDATE SET
\* display_name, image_url (and updated_at) to the values of the new row
Upsert(new_user) ==
    IF \E u \in users : u.id = new_user.id
    THEN {IF u.id = new_user.id
          THEN [u EXCEPT !.display_name = new_user.display_name,
                         !.image_url = new_user.image_url]
          ELSE u : u \in users}
    ELSE users \cup {new_user}

\* auth_middleware, lines 72-89: the bearer token is verified (None stands
\* for a missing or invalid token), then the anonymous check
AuthMiddleware(r) ==
    /\ Arrives(r)
    /\ \E token \in {None} \cup {Some(f) : f \in FirebaseUsers},
          allow_anonymous \in BOOLEAN :
         LET rec == [IdleReq EXCEPT !.op = "auth"]
         IN  IF token = None
             THEN Fail(r, rec, 401)
             ELSE LET firebase_user == CHOOSE f \in token : TRUE
                      known == [rec EXCEPT !.user_id = firebase_user.id,
                                           !.email = firebase_user.email]
                  IN  IF ~allow_anonymous /\ firebase_user.email = None
                      THEN Fail(r, known, 403)
                      ELSE reqs' = [reqs EXCEPT ![r] =
                                      [known EXCEPT !.pc = "auth_get"]]
    /\ UNCHANGED <<chats, keys, nextKeyId, messages, nextMsgId, kops, users>>

\* auth_middleware, lines 91-100: user_repository.get(firebase_user.id)
AuthGet(r) ==
    /\ reqs[r].pc = "auth_get"
    /\ LET existing_user == UserGet(reqs[r].user_id)
       IN  reqs' = [reqs EXCEPT ![r] =
                      IF existing_user = None
                      THEN [reqs[r] EXCEPT !.pc = "auth_upsert"]
                      ELSE [reqs[r] EXCEPT !.pc = "handler",
                                           !.user = existing_user]]
    /\ UNCHANGED <<chats, keys, nextKeyId, messages, nextMsgId, kops, users>>

\* auth_middleware, lines 101-113: no row was found, the user is upserted
\* with no display name and no image
AuthUpsert(r) ==
    /\ reqs[r].pc = "auth_upsert"
    /\ LET create_user_dto == NewUser(reqs[r].user_id, reqs[r].email, None, None)
       IN  /\ users' = Upsert(create_user_dto)
           /\ reqs' = [reqs EXCEPT ![r].pc = "handler",
                           ![r].user = {u \in Upsert(create_user_dto) :
                                          u.id = reqs[r].user_id}]
    /\ UNCHANGED <<chats, keys, nextKeyId, messages, nextMsgId, kops>>

\* auth_middleware: the lookup or the upsert fails, mapped to 500
AuthStorageFail(r) ==
    /\ reqs[r].pc \in {"auth_get", "auth_upsert"}
    /\ Fail(r, reqs[r], 500)
    /\ UNCHANGED <<chats, keys, nextKeyId, messages, nextMsgId, kops, users>>

\* profile: the authenticated user is returned as the middleware found it
Profile(r) ==
    /\ reqs[r].pc = "handler"
    /\ Answer(r, [reqs[r] EXCEPT !.op = "profile"], 200, reqs[r].user)
    /\ UNCHANGED <<chats, keys, nextKeyId, messages, nextMsgId, kops, users>>

\* update_profile: display_name is always written, image_url only when the
\* payload carries one; UserRepository::update fails when the row is gone
UpdateProfile(r) ==
    /\ reqs[r].pc = "handler"
    /\ \E display_name \in DisplayNameInputs, image_url \in ImageUrlInputs :
         LET rec == [reqs[r] EXCEPT !.op = "update_profile",
                        !.display_name = display_name, !.image_url = image_url]
             id == reqs[r].user_id
         IN  IF UserGet(id) = None
             THEN Fail(r, rec, 500) /\ UNCHANGED users
             ELSE /\ users' =
                       {IF u.id = id
                        THEN [u EXCEPT !.display_name = display_name,
                                       !.image_url = IF image_url = None
                                                     THEN u.image_url
                                                     ELSE image_url]
                        ELSE u : u \in users}
                  /\ Answer(r, rec, 200,
                            {[u EXCEPT !.display_name = display_name,
                                       !.image_url = IF image_url = None
                                                     THEN u.image_url
                                                     ELSE image_url] :
                               u \in UserGet(id)})
    /\ UNCHANGED <<chats, keys, nextKeyId, messages, nextMsgId, kops>>

(***************************************************************************)
(* Credentials: UserApiKeyRepository and the create_key handler            *)
(***************************************************************************)
IdleOp ==
    [pc |-> "idle", op |-> "", user_id |-> "", id |-> 0, provider |-> "",
     writes |-> <<>>, status |-> 0, failed_at |-> ""]

\* the statements of set_default that run inside the open transaction
InTx == {"sd_clear", "sd_set", "sd_commit"}

\* rows another open transaction has updated and not yet committed
LockedByOthers(k) ==
    UNION {DOMAIN kops[j].writes : j \in {i \in KeyOps : i /= k /\ kops[i].pc \in InTx}}

\* NewUserApiKey::from(CreateUserApiKeyDto)
NewUserApiKey(id, user_id, provider, encrypted_key, is_default) ==
    [id |-> id, user_id |-> user_id, provider |-> provider,
     encrypted_key |-> encrypted_key, is_default |-> is_default]

\* UserApiKeyRepository::create, called on its own
KeyCreate(user_id, provider, encrypted_key, is_default) ==
    /\ nextKeyId <= MaxKeys
    /\ keys' = keys \cup
          {NewUserApiKey(nextKeyId, user_id, provider, encrypted_key, is_default)}
    /\ nextKeyId' = nextKeyId + 1
    /\ UNCHANGED <<chats, messages, nextMsgId, reqs, kops, users>>

\* a call runs on the first free task
FreeTask(k) ==
    /\ kops[k].pc = "idle"
    /\ \A j \in KeyOps : j < k => kops[j].pc /= "idle"

\* create_key, lines 92-114: the provider match, then the insert; with
\* is_default the handler goes on to set_default(key.id, user)
CreateKey(k) ==
    /\ FreeTask(k)
    /\ \E user_id \in Users, provider \in ProviderInputs, is_default \in BOOLEAN :
         LET api_key == ApiKeyInputs[user_id]
             op == [IdleOp EXCEPT !.op = "create_key", !.user_id = user_id]
         IN  IF ParseProvider(provider) = None
             THEN /\ kops' = [kops EXCEPT ![k] =
                                [op EXCEPT !.pc = "err", !.status = 400]]
                  /\ UNCHANGED <<keys, nextKeyId>>
             ELSE /\ nextKeyId <= MaxKeys
                  /\ keys' = keys \cup
                        {NewUserApiKey(nextKeyId, user_id,
                            CHOOSE p \in ParseProvider(provider) : TRUE,
                            api_key, is_default)}
                  /\ nextKeyId' = nextKeyId + 1
                  /\ kops' = [kops EXCEPT ![k] =
                        IF is_default
                        THEN [op EXCEPT !.pc = "sd_find", !.id = nextKeyId]
                        ELSE [op EXCEPT !.pc = "ok", !.id = nextKeyId,
                                        !.status = 200]]
    /\ UNCHANGED <<chats, messages, nextMsgId, reqs, users>>

\* how a failed set_default ends: the transaction is rolled back, its writes
\* are dropped; create_key maps the error to 500
Rollback(op) ==
    [op EXCEPT !.pc = "err", !.status = 500, !.writes = <<>>,
               !.failed_at = op.pc]

\* lines 137-147: the transaction opens and looks the key up by id alone
Find(op) ==
    LET key == {x \in keys : x.id = op.id}
    IN  IF key = {}
        THEN Rollback(op)
        ELSE [op EXCEPT !.pc = "sd_clear",
                        !.provider = (CHOOSE x \in key : TRUE).provider]

\* set_default called on its own with any id and any user
SetDefaultCall(k) ==
    /\ FreeTask(k)
    /\ \E id \in KeyIds, user_id \in Users :
         kops' = [kops EXCEPT ![k] =
                    Find([IdleOp EXCEPT !.pc = "sd_find", !.op = "set_default",
                                        !.id = id, !.user_id = user_id])]
    /\ UNCHANGED <<chats, keys, nextKeyId, messages, nextMsgId, reqs, users>>

\* create_key, lines 116-123: set_default(key.id, &user.0.id)
CreateKeySetDefault(k) ==
    /\ kops[k].pc = "sd_find"
    /\ kops' = [kops EXCEPT ![k] = Find(kops[k])]
    /\ UNCHANGED <<chats, keys, nextKeyId, messages, nextMsgId, reqs, users>>

\* the clearing update run outside any transaction: it reaches the table at once
SetDefaultClearNoTx(k) ==
    /\ kops[k].pc = "sd_clear"
    /\ keys' = {IF x.user_id = kops[k].user_id /\ x.provider = kops[k].provider
                THEN [x EXCEPT !.is_default = FALSE] ELSE x : x \in keys}
    /\ kops' = [kops EXCEPT ![k].pc = "sd_set"]
    /\ UNCHANGED <<chats, nextKeyId, messages, nextMsgId, reqs, users>>

\* the clearing update without its provider filter
SetDefaultClearAllProviders(k) ==
    /\ kops[k].pc = "sd_clear"
    /\ LET rows == {x.id : x \in {y \in keys : y.user_id = kops[k].user_id}}
       IN  /\ rows \cap LockedByOthers(k) = {}
           /\ kops' = [kops EXCEPT ![k].pc = "sd_set",
                                   ![k].writes = [i \in rows |-> FALSE]]
    /\ UNCHANGED <<chats, keys, nextKeyId, messages, nextMsgId, reqs, users>>

\* lines 149-157: is_default = false on every row of (user_id, provider);
\* the rows stay locked and the write stays private until commit
SetDefaultClear(k) ==
    /\ kops[k].pc = "sd_clear"
    /\ LET rows == {x.id : x \in {y \in keys : y.user_id = kops[k].user_id
                                        /\ y.provider = kops[k].provider}}
       IN  /\ rows \cap LockedByOthers(k) = {}
           /\ kops' = [kops EXCEPT ![k].pc = "sd_set",
                                   ![k].writes = [i \in rows |-> FALSE]]
    /\ UNCHANGED <<chats, keys, nextKeyId, messages, nextMsgId, reqs, users>>

\* lines 159-166: is_default = true on the row `id`
SetDefaultSet(k) ==
    /\ kops[k].pc = "sd_set"
    /\ LET rows == {x.id : x \in {y \in keys : y.id = kops[k].id}}
           w == kops[k].writes
       IN  /\ rows \cap LockedByOthers(k) = {}
           /\ kops' = [kops EXCEPT ![k].pc = "sd_commit",
                 ![k].writes = [i \in DOMAIN w \cup rows |->
                                   IF i \in rows THEN TRUE ELSE w[i]]]
    /\ UNCHANGED <<chats, keys, nextKeyId, messages, nextMsgId, reqs, users>>

\* a commit that keeps the last update only: the clearing writes are lost
SetDefaultCommitSetOnly(k) ==
    /\ kops[k].pc = "sd_commit"
    /\ keys' = {IF x.id = kops[k].id THEN [x EXCEPT !.is_default = TRUE]
                ELSE x : x \in keys}
    /\ kops' = [kops EXCEPT ![k].pc = "ok", ![k].status = 200, ![k].writes = <<>>]
    /\ UNCHANGED <<chats, nextKeyId, messages, nextMsgId, reqs, users>>

\* the transaction commits: its writes reach the table together
SetDefaultCommit(k) ==
    /\ kops[k].pc = "sd_commit"
    /\ LET w == kops[k].writes
       IN  keys' = {IF x.id \in DOMAIN w THEN [x EXCEPT !.is_default = w[x.id]]
                    ELSE x : x \in keys}
    /\ kops' = [kops EXCEPT ![k].pc = "ok", ![k].status = 200, ![k].writes = <<>>]
    /\ UNCHANGED <<chats, nextKeyId, messages, nextMsgId, reqs, users>>

\* any statement of the transaction (or the commit) returns an error
SetDefaultFail(k) ==
    /\ kops[k].pc \in InTx
    /\ kops' = [kops EXCEPT ![k] = Rollback(kops[k])]
    /\ UNCHANGED <<chats, keys, nextKeyId, messages, nextMsgId, reqs, users>>

\* the credential ids a delete_key call may name: 1 and 2 are u1's, 4 is u2's,
\* 5 is an id no row has
DeleteKeyIdInputs == {1, 2, 4, 5}

\* UserApiKeyRepository::list_by_user
ListByUser(user_id) == {x \in keys : x.user_id = user_id}

\* a delete_key that looks the id up among the keys of every user
DeleteKeyListAnyOwner(k) ==
    /\ FreeTask(k)
    /\ \E user_id \in Users, id \in DeleteKeyIdInputs :
         LET op == [IdleOp EXCEPT !.op = "delete_key", !.user_id = user_id,
                                  !.id = id]
         IN  kops' = [kops EXCEPT ![k] =
                IF ~\E x \in keys : x.id = id
                THEN [op EXCEPT !.pc = "err", !.status = 404]
                ELSE [op EXCEPT !.pc = "dk_delete"]]
    /\ UNCHANGED <<chats, keys, nextKeyId, messages, nextMsgId, reqs, users>>

\* delete_key, lines 150-158: the caller's keys are listed and searched for
\* the id
DeleteKeyList(k) ==
    /\ FreeTask(k)
    /\ \E user_id \in Users, id \in DeleteKeyIdInputs :
         LET op == [IdleOp EXCEPT !.op = "delete_key", !.user_id = user_id,
                                  !.id = id]
             listed == ListByUser(user_id)
         IN  kops' = [kops EXCEPT ![k] =
                IF ~\E x \in listed : x.id = id
                THEN [op EXCEPT !.pc = "err", !.status = 404]
                ELSE [op EXCEPT !.pc = "dk_delete"]]
    /\ UNCHANGED <<chats, keys, nextKeyId, messages, nextMsgId, reqs, users>>

\* delete_key, lines 160-166: UserApiKeyRepository::delete, by id alone
DeleteKeyDelete(k) ==
    /\ kops[k].pc = "dk_delete"
    /\ kops[k].id \notin LockedByOthers(k)
    /\ keys' = {x \in keys : x.id /= kops[k].id}
    /\ kops' = [kops EXCEPT ![k].pc = "ok", ![k].status = 204]
    /\ UNCHANGED <<chats, nextKeyId, messages, nextMsgId, reqs, users>>

\* the call has returned; the task is free for another call
KeyOpReturn(k) ==
    /\ kops[k].pc \in {"ok", "err"}
    /\ kops' = [kops EXCEPT ![k] = IdleOp]
    /\ UNCHANGED <<chats, keys, nextKeyId, messages, nextMsgId, reqs, users>>

(***************************************************************************)
(* Specifications                                                          *)
(***************************************************************************)
\* The store once u1 and u2 have each created a chat, before any credential
\* or message exists.
Init ==
    /\ chats = [id \in {1, 2} |->
                  [user_id |-> IF id = 1 THEN "u1" ELSE "u2", title |-> "New Chat",
                   deleted_at |-> FALSE]]
    /\ keys = {}
    /\ nextKeyId = 1
    /\ messages = {}
    /\ nextMsgId = 1
    /\ reqs = [r \in Reqs |-> IdleReq]
    /\ kops = [k \in KeyOps |-> IdleOp]
    /\ users = StoredUsers

\* The same store after u1 stored a default OpenAI key, a default DeepSeek
\* key and a non-default Ollama key, and u2 stored a default OpenAI key.
InitWithKeys ==
    /\ chats = [id \in {1, 2} |->
                  [user_id |-> IF id = 1 THEN "u1" ELSE "u2", title |-> "New Chat",
                   deleted_at |-> FALSE]]
    /\ keys = {NewUserApiKey(1, "u1", "OpenAI", ApiKeyInputs["u1"], TRUE),
               NewUserApiKey(2, "u1", "DeepSeek", ApiKeyInputs["u1"], TRUE),
               NewUserApiKey(3, "u1", "Ollama", ApiKeyInputs["u1"], FALSE),
               NewUserApiKey(4, "u2", "OpenAI", ApiKeyInputs["u2"], TRUE)}
    /\ nextKeyId = 5
    /\ messages = {}
    /\ nextMsgId = 1
    /\ reqs = [r \in Reqs |-> IdleReq]
    /\ kops = [k \in KeyOps |-> IdleOp]
    /\ users = StoredUsers

ChatStep(r) ==
    \/ ChatResolveCredential(r)
    \/ ChatAssemble(r)
    \/ ChatDispatch(r)
    \/ ChatUserSeq(r)
    \/ ChatInsertUser(r)
    \/ ChatAssistantSeq(r)
    \/ ChatInsertAssistant(r)
    \/ ChatUpdateTokens(r)

KeyStep(tasks) ==
    \/ \E user_id \in Users, provider \in {"OpenAI", "DeepSeek"},
          is_default \in BOOLEAN :
         KeyCreate(user_id, provider, ApiKeyInputs[user_id], is_default)
    \/ \E k \in tasks :
         \/ CreateKey(k)
         \/ SetDefaultCall(k)
         \/ CreateKeySetDefault(k)
         \/ SetDefaultClear(k)
         \/ SetDefaultSet(k)
         \/ SetDefaultCommit(k)
         \/ SetDefaultFail(k)
         \/ KeyOpReturn(k)

\* completion requests running concurrently, and chat deletion
Next ==
    \/ \E r \in Reqs : ChatValidate(r) \/ ChatStep(r)
    \/ \E user_id \in Users, id \in ChatIdInputs : DeleteChat(user_id, id)

Spec == InitWithKeys /\ [][Next]_vars

\* completion requests one after the other: a request arrives only when no
\* other is in flight
SeqNext ==
    \/ \E r \in Reqs :
         \/ (\A q \in Reqs : ~InFlight(q)) /\ ChatValidate(r)
         \/ ChatStep(r)
    \/ \E user_id \in Users, id \in ChatIdInputs : DeleteChat(user_id, id)

SeqSpec == InitWithKeys /\ [][SeqNext]_vars

\* credential operations running concurrently
KeyNext == KeyStep(KeyOps)

KeySpec == Init /\ [][KeyNext]_vars

\* credential operations, one after the other, concurrent with one
\* completion request
CredNext ==
    \/ KeyStep({1})
    \/ ChatValidate(1) \/ ChatStep(1)

CredSpec == Init /\ [][CredNext]_vars

\* a completion request running concurrently with the calls of the chat and
\* message endpoints, storage errors included
ApiNext ==
    \/ \E r \in Reqs :
         \/ ChatValidate(r) \/ ChatStep(r) \/ ChatStorageFail(r)
         \/ CreateMessageValidate(r) \/ CreateMessageSeq(r)
         \/ CreateMessageInsert(r)
         \/ GetMessages(r)
         \/ UpdateChat(r)
         \/ DeleteChatEndpoint(r)
         \/ UpdateMessage(r)
         \/ DeleteMessage(r)
         \/ ClearMessages(r)
    \/ \E user_id \in Users, id \in ChatIdInputs : DeleteChat(user_id, id)

ApiSpec == InitWithKeys /\ [][ApiNext]_vars

\* the answer has been sent: the server takes the next request
NextRequest(r) ==
    /\ reqs[r].pc = "done"
    /\ reqs' = [reqs EXCEPT ![r] = IdleReq]
    /\ UNCHANGED <<chats, keys, nextKeyId, messages, nextMsgId, kops, users>>

\* create_message, completion, delete_message and clear_messages calls, one
\* after the other (each is answered before the next arrives)
OrdNext ==
    \/ nextMsgId <= MaxMsgs /\ ChatValidate(1)
    \/ nextMsgId <= MaxMsgs /\ CreateMessageValidate(1)
    \/ nextMsgId <= MaxMsgs /\ DeleteMessage(1)
    \/ nextMsgId <= MaxMsgs /\ ClearMessages(1)
    \/ ChatStep(1)
    \/ CreateMessageSeq(1)
    \/ CreateMessageInsert(1)
    \/ NextRequest(1)

OrdSpec == InitWithKeys /\ [][OrdNext]_vars

\* The store when u1 has signed in, created a chat and named itself, and u2
\* has never signed in.
AuthInit ==
    /\ chats = [id \in {1} |->
                  [user_id |-> "u1", title |-> "New Chat", deleted_at |-> FALSE]]
    /\ keys = {}
    /\ nextKeyId = 1
    /\ messages = {}
    /\ nextMsgId = 1
    /\ reqs = [r \in Reqs |-> IdleReq]
    /\ kops = [k \in KeyOps |-> IdleOp]
    /\ users = {NewUser("u1", Some("u1@mail"), Some("Ann"), None)}

\* authenticated requests to /me running concurrently
AuthNext ==
    \E r \in Reqs :
      \/ AuthMiddleware(r)
      \/ AuthGet(r)
      \/ AuthUpsert(r)
      \/ AuthStorageFail(r)
      \/ Profile(r)
      \/ UpdateProfile(r)

AuthSpec == AuthInit /\ [][AuthNext]_vars

\* a list_chats call running concurrently with chat deletion
ListNext ==
    \/ ListChatsCount(1)
    \/ ListChatsLoad(1)
    \/ ListChatsFail(1)
    \/ \E user_id \in Users, id \in ChatIdInputs : DeleteChat(user_id, id)

ListSpec == InitWithKeys /\ [][ListNext]_vars

\* credential operations one after the other: a call starts, and a row is
\* stored, only when no other call is running
KeySeqNext ==
    \/ /\ \A k \in KeyOps : kops[k].pc = "idle"
       /\ \E user_id \in Users, provider \in {"OpenAI", "DeepSeek"},
             is_default \in BOOLEAN :
            KeyCreate(user_id, provider, ApiKeyInputs[user_id], is_default)
    \/ \E k \in {1} :
         \/ CreateKey(k)
         \/ SetDefaultCall(k)
         \/ CreateKeySetDefault(k)
         \/ SetDefaultClear(k)
         \/ SetDefaultSet(k)
         \/ SetDefaultCommit(k)
         \/ SetDefaultFail(k)
         \/ KeyOpReturn(k)

KeySeqSpec == Init /\ [][KeySeqNext]_vars

\* The store once u1 holds two OpenAI keys (the first one default) and a
\* default DeepSeek key, and u2 holds a default OpenAI key.
InitTwoKeys ==
    /\ chats = [id \in {1, 2} |->
                  [user_id |-> IF id = 1 THEN "u1" ELSE "u2", title |-> "New Chat",
                   deleted_at |-> FALSE]]
    /\ keys = {NewUserApiKey(1, "u1", "OpenAI", ApiKeyInputs["u1"], TRUE),
               NewUserApiKey(2, "u1", "OpenAI", ApiKeyInputs["u1"], FALSE),
               NewUserApiKey(3, "u1", "DeepSeek", ApiKeyInputs["u1"], TRUE),
               NewUserApiKey(4, "u2", "OpenAI", ApiKeyInputs["u2"], TRUE)}
    /\ nextKeyId = 5
    /\ messages = {}
    /\ nextMsgId = 1
    /\ reqs = [r \in Reqs |-> IdleReq]
    /\ kops = [k \in KeyOps |-> IdleOp]
    /\ users = StoredUsers

\* set_default calls running concurrently, by either user on u1's OpenAI keys
SetDefaultNext ==
    \E k \in KeyOps :
      \/ SetDefaultCall(k)
      \/ SetDefaultClear(k)
      \/ SetDefaultSet(k)
      \/ SetDefaultCommit(k)
      \/ SetDefaultFail(k)
      \/ KeyOpReturn(k)

SetDefaultSpec == InitTwoKeys /\ [][SetDefaultNext]_vars

\* delete_key calls running concurrently on the stored credentials
DelNext ==
    \E k \in KeyOps :
      \/ DeleteKeyList(k)
      \/ DeleteKeyDelete(k)
      \/ KeyOpReturn(k)

DelSpec == InitWithKeys /\ [][DelNext]_vars

\* what the adapters may be given: the roles and texts of stored messages
AdapterRoles == {"user", "assistant", "system"}
AdapterContents == {"hello", "hi"}
AdapterProviderInputs == {"openai", "anthropic", "google"}

\* the conversations of at most MaxLen messages
ContextInputs ==
    UNION {[1..n -> [role : AdapterRoles, content : AdapterContents]] :
             n \in 0..MaxLen}

\* The store once u1 also holds default Anthropic and Google keys and chat 1
\* holds a conversation written through create_message, at the moment a
\* completion request of u1 on chat 1 has passed validation.
AdapterInit ==
    /\ chats = [id \in {1, 2} |->
                  [user_id |-> IF id = 1 THEN "u1" ELSE "u2", title |-> "New Chat",
                   deleted_at |-> FALSE]]
    /\ keys = {NewUserApiKey(1, "u1", "OpenAI", ApiKeyInputs["u1"], TRUE),
               NewUserApiKey(2, "u1", "DeepSeek", ApiKeyInputs["u1"], TRUE),
               NewUserApiKey(3, "u1", "Ollama", ApiKeyInputs["u1"], FALSE),
               NewUserApiKey(4, "u2", "OpenAI", ApiKeyInputs["u2"], TRUE),
               NewUserApiKey(5, "u1", "Anthropic", ApiKeyInputs["u1"], TRUE),
               NewUserApiKey(6, "u1", "Google", ApiKeyInputs["u1"], TRUE)}
    /\ nextKeyId = 7
    /\ \E ctx \in ContextInputs :
         /\ messages = {NewMessage(i, 1, ctx[i].role, ctx[i].content, i) :
                           i \in 1..Len(ctx)}
         /\ nextMsgId = Len(ctx) + 1
    /\ \E model_provider \in AdapterProviderInputs :
         reqs = [r \in Reqs |->
                   IF r = 1
                   THEN [IdleReq EXCEPT !.pc = "resolving", !.op = "chat",
                           !.user_id = "u1", !.chat_id = 1, !.message = "hello",
                           !.model_provider = model_provider, !.model_id = "gpt-4",
                           !.provider = CHOOSE p \in ParseProvider(model_provider) : TRUE]
                   ELSE IdleReq]
    /\ kops = [k \in KeyOps |-> IdleOp]
    /\ users = StoredUsers

\* one completion request on a stored conversation, for each adapter
AdapterNext == ChatStep(1)

AdapterSpec == AdapterInit /\ [][AdapterNext]_vars

\* one streamed adapter call on a stored conversation, for each adapter
StreamNext ==
    \/ ChatResolveCredential(1)
    \/ ChatAssemble(1)
    \/ StreamDispatch(1)

StreamSpec == AdapterInit /\ [][StreamNext]_vars

(***************************************************************************)
(* Properties                                                              *)
(***************************************************************************)
Providers == {"OpenAI", "Anthropic", "Google", "DeepSeek", "Ollama"}

\* the message rows a request has inserted (the ids `create` returned to it)
WrittenBy(rec) == rec.user_message \cup rec.assistant_message

\* the chat row a request names is there, is the caller's and is not deleted
Accessible(rec) ==
    /\ rec.chat_id \in DOMAIN chats
    /\ chats[rec.chat_id].user_id = rec.user_id
    /\ ~chats[rec.chat_id].deleted_at

\* the request's vendor call was made and returned an error
ProviderFailed(rec) == rec.vendor_calls > 0 /\ rec.ai_response = None

\* C1: when the adapter's chat() call returns an error, the step that ends the
\* request answers 500, inserts no message row, and the request has inserted
\* none before it.
C1_NoWriteOnProviderFailure ==
    [][\A r \in Reqs :
         (reqs[r].pc /= "done" /\ reqs'[r].pc = "done" /\ ProviderFailed(reqs'[r]))
         => /\ reqs'[r].status = 500
            /\ messages' = messages
            /\ WrittenBy(reqs'[r]) = {}]_vars

\* C1 witness: a request ended by a vendor error on a chat that holds the
\* messages of another request.
C1_Witness ==
    \E r \in Reqs :
      /\ reqs[r].pc = "done" /\ ProviderFailed(reqs[r]) /\ reqs[r].status = 500
      /\ ChatMessages(reqs[r].chat_id) /= {}

\* C2: once K concurrent completions on one chat have all answered 200, the
\* chat holds 2K messages with 2K pairwise distinct sequence numbers.
C2_ConcurrentUniqueness ==
    \A c \in DOMAIN chats :
      LET ok == {r \in Reqs : reqs[r].chat_id = c /\ reqs[r].pc = "done"
                              /\ reqs[r].status = 200}
      IN  (\A r \in Reqs : ~InFlight(r))
          => /\ Cardinality(ChatMessages(c)) = 2 * Cardinality(ok)
             /\ Cardinality({m.sequence_number : m \in ChatMessages(c)})
                  = 2 * Cardinality(ok)

\* C3: every (user_id, provider) pair has at most one credential with
\* is_default = true, in every state the credential operations reach.
C3_SingleDefault ==
    \A u \in Users, p \in Providers :
      Cardinality({k \in keys : k.user_id = u /\ k.provider = p /\ k.is_default}) <= 1

\* C4: get_default_for_provider(A, P) returns only credentials of user A and
\* provider P flagged default, whatever credential operations ran; the
\* credential a request resolved is its caller's, and the key its adapter sends
\* to the vendor is that credential's key.
C4_CredentialIsolation ==
    /\ \A a \in Users, p \in Providers :
         \A k \in GetDefaultForProvider(a, p) :
           k.user_id = a /\ k.provider = p /\ k.is_default
    /\ \A r \in Reqs :
         /\ \A k \in reqs[r].api_key :
              /\ k.user_id = reqs[r].user_id
              /\ k.provider = reqs[r].provider
              /\ k.is_default
         /\ reqs[r].vendor_key /= None
            => /\ reqs[r].api_key /= None
               /\ reqs[r].vendor_key = {k.encrypted_key : k \in reqs[r].api_key}
               /\ reqs[r].vendor_key = Some(ApiKeyInputs[reqs[r].user_id])

\* C4 witness: u1's request has called the vendor with u1's key while u2 holds
\* a default credential for the same provider.
C4_Witness ==
    \E r \in Reqs :
      /\ reqs[r].user_id = "u1" /\ reqs[r].vendor_calls = 1
      /\ reqs[r].vendor_key = Some("sk-u1")
      /\ \E k \in keys : k.user_id = "u2" /\ k.provider = reqs[r].provider
                         /\ k.is_default

C6_SequentialSequenceRange ==
    \A c \in DOMAIN chats :
      LET M == Cardinality(ChatMessages(c))
          ok == {r \in Reqs : reqs[r].chat_id = c /\ reqs[r].pc = "done"
                              /\ reqs[r].status = 200}
      IN  /\ {m.sequence_number : m \in ChatMessages(c)} = 1..M
          /\ (\A r \in Reqs : ~InFlight(r)) => M = 2 * Cardinality(ok)

\* C6 witness: two completions in a row have left four messages on one chat.
C6_Witness ==
    /\ \A r \in Reqs : ~InFlight(r)
    /\ \E c \in DOMAIN chats : Cardinality(ChatMessages(c)) = 4

\* C7: no statement of set_default other than its commit changes the stored
\* credentials: a call that fails at any statement, or finds no row for its
\* id, leaves every is_default as it was.
C7_SetDefaultAtomic ==
    [][\A k \in KeyOps :
         (kops'[k] /= kops[k] /\ kops'[k].pc \in InTx \cup {"err"})
         => keys' = keys]_vars

\* C7 witness: a set_default failed after its clearing update had run, and the
\* pair's previous default is still in place.
C7_Witness ==
    \E k \in KeyOps :
      /\ kops[k].pc = "err" /\ kops[k].failed_at \in {"sd_set", "sd_commit"}
      /\ \E x \in keys : /\ x.user_id = kops[k].user_id
                         /\ x.provider = kops[k].provider
                         /\ x.is_default
                         /\ x.id /= kops[k].id

\* the five provider strings of the enum
KnownProviderStrings == {"openai", "anthropic", "google", "deepseek", "ollama"}

NoDefaultCredential(rec) ==
    \A k \in keys :
      ~(k.user_id = rec.user_id /\ Some(k.provider) = ParseProvider(rec.model_provider)
        /\ k.is_default)

I32HoldsU32(i, t) == t.hi = 0 /\ i = t.lo

\* C10: after a successful completion on a chat with no prior messages (and no
\* other writer), the chat holds exactly the user message with number 1 and
\* the request text, and the assistant message with number 2, the provider's
\* content and, when tokens were reported, the provider's tokens_used and
\* model; the response repeats the provider's result.
C10_ScenarioA ==
    \A r \in Reqs :
      (/\ reqs[r].pc = "done" /\ reqs[r].status = 200
       /\ Len(reqs[r].ai_messages) = 1
       /\ \A q \in Reqs \ {r} :
            reqs[q].chat_id = reqs[r].chat_id => WrittenBy(reqs[q]) = {})
      => LET a == CHOOSE x \in reqs[r].ai_response : TRUE
             msgs == ChatMessages(reqs[r].chat_id)
         IN  /\ Cardinality(msgs) = 2
             /\ \E u \in msgs :
                  /\ u.sequence_number = 1 /\ u.role = "user"
                  /\ u.content = reqs[r].message
             /\ \E m \in msgs :
                  /\ m.sequence_number = 2 /\ m.role = "assistant"
                  /\ m.content = a.content
                  /\ \A t \in a.tokens_used :
                       /\ \E i \in m.tokens_used : I32HoldsU32(i, t)
                       /\ m.model_used = Some(a.model)
             /\ reqs[r].response = Some(a)

\* C11: when set_default(k, u) on a credential k owned by u, of provider p,
\* succeeds (its transaction commits), k is the default, every other
\* credential of (u, p) is not, and every credential of another provider or
\* another user has the is_default it had; no row appears or disappears.
C11_SetDefaultPostcondition ==
    [][\A k \in KeyOps :
         (/\ kops[k].pc = "sd_commit" /\ kops'[k].pc = "ok"
          /\ \E x \in keys : x.id = kops[k].id /\ x.user_id = kops[k].user_id)
         => /\ {x.id : x \in keys'} = {x.id : x \in keys}
            /\ \A x \in keys' :
                 /\ x.id = kops[k].id => x.is_default
                 /\ (x.id /= kops[k].id /\ x.user_id = kops[k].user_id
                     /\ x.provider = kops[k].provider) => ~x.is_default
                 /\ (x.user_id /= kops[k].user_id
                     \/ x.provider /= kops[k].provider) => x \in keys]_vars

\* C11 witness (Scenario D): a set_default called on its own has succeeded on
\* the owner's second credential of a provider; that one is the default and
\* the first one is not.
C11_Witness ==
    \E k \in KeyOps :
      /\ kops[k].pc = "ok" /\ kops[k].op = "set_default" /\ kops[k].id = 2
      /\ \E x, y \in keys :
           /\ x.id = 2 /\ x.user_id = kops[k].user_id /\ x.is_default
           /\ y.id = 1 /\ y.user_id = x.user_id /\ y.provider = x.provider
           /\ ~y.is_default

\* no message row has ever been removed
NoMessageRemoved == Cardinality(messages) = nextMsgId - 1

\* C12: as long as no message is removed, the assistant message of every
\* completion exchange has the number of its user message plus one, and neither
\* number is carried by another message of the chat, whatever other exchanges
\* or create_message calls ran between the two writes.
C12_ConsecutiveSequenceNumbers ==
    NoMessageRemoved =>
    \A r \in Reqs :
      (reqs[r].op = "chat" /\ reqs[r].assistant_message /= None)
      => /\ reqs[r].assistant_seq = reqs[r].user_seq + 1
         /\ \A m \in messages :
              m.id \in WrittenBy(reqs[r])
              => \A n \in ChatMessages(m.chat_id) :
                   n.id /= m.id => n.sequence_number /= m.sequence_number

\* the message rows a call has inserted, through either handler
InsertedBy(rec) == WrittenBy(rec) \cup rec.created

\* C13: whenever a completion request or a create_message call inserts a
\* message row, the chat it names exists, is the caller's and is not
\* soft-deleted at that moment.
C13_InsertOnlyIntoLiveChat ==
    [][\A r \in Reqs :
         InsertedBy(reqs'[r]) /= InsertedBy(reqs[r]) => Accessible(reqs'[r])]_vars

\* C14: no completion request ends with its user message recorded and no
\* assistant message inserted.
C14_NoOrphanUserMessage ==
    [][\A r \in Reqs :
         (/\ reqs'[r].op = "chat"
          /\ reqs[r].pc /= "done" /\ reqs'[r].pc = "done"
          /\ \E m \in messages' : m.id \in reqs'[r].user_message)
         => reqs'[r].assistant_message /= None]_vars

\* C15: loading the messages of a chat that has no row, is another user's or
\* is soft-deleted does not succeed and returns no message list, in
\* get_messages (list_messages) and in the context load of a completion
\* (list_by_chat).
C15_DeletedChatMessagesNotLoaded ==
    [][\A r \in Reqs :
         /\ (reqs[r].pc = "idle" /\ reqs'[r].op = "get_messages"
             /\ ~Accessible(reqs'[r]))
            => reqs'[r].status /= 200 /\ reqs'[r].response = None
         /\ (reqs[r].pc = "assembling" /\ reqs'[r].pc /= "assembling"
             /\ ~Accessible(reqs[r]))
            => reqs'[r].pc = "done" /\ reqs'[r].ai_messages = <<>>]_vars

\* the endpoints whose repository error is the only failure they report
NotFoundEndpoints ==
    {"update_chat", "delete_chat", "get_messages", "update_message",
     "delete_message", "clear_messages"}

\* the chat a call names is missing, foreign or soft-deleted, or the message
\* it names is not a message of that chat
TargetMissing(rec) ==
    \/ ~Accessible(rec)
    \/ /\ rec.op \in {"update_message", "delete_message"}
       /\ ~\E m \in messages : m.id = rec.message_id /\ m.chat_id = rec.chat_id

\* C18: update_chat, delete_chat, get_messages, update_message,
\* delete_message and clear_messages answer 404 and change no stored row when
\* their chat (or message) is missing, foreign or soft-deleted.
C18_MissingTargetIs404 ==
    [][\A r \in Reqs :
         (/\ reqs[r].pc = "idle" /\ reqs'[r].op \in NotFoundEndpoints
          /\ TargetMissing(reqs'[r]))
         => /\ reqs'[r].status = 404
            /\ chats' = chats /\ messages' = messages]_vars

\* C16: the manager the handler builds from {provider -> credential} returns
\* an adapter for the provider that was given the credential, whichever of the
\* five it is, and None for every provider that was given none.
C16_ManagerCoversGivenProviders ==
    \A r \in Reqs :
      \A k \in reqs[r].api_key :
        LET api_keys == [p \in {reqs[r].provider} |-> k.encrypted_key]
            manager == ProviderManagerNew(api_keys)
        IN  \A p \in Providers :
              (GetProvider(manager, p) /= None) <=> (p \in DOMAIN api_keys)

\* the text of one entry of a vendor payload
PayloadText(provider, entry) ==
    IF provider = "Google" THEN entry.parts[1].text ELSE entry.content

\* the vendor's word for a role
VendorRole(provider, role) ==
    IF provider = "Google"
    THEN (IF role = "assistant" THEN "model" ELSE "user")
    ELSE role

\* C17: the payload an adapter sends has one entry per message of the
\* normalized list, in the same order, each with the message's content
\* unchanged and its role in the vendor's vocabulary (Google: assistant ->
\* model, system -> user, one part per entry).
C17_PayloadKeepsMessages ==
    \A r \in Reqs :
      reqs[r].vendor_calls > 0
      => LET m == reqs[r].ai_messages
             p == reqs[r].payload
         IN  /\ Len(p) = Len(m)
             /\ \A i \in 1..Len(m) :
                  /\ PayloadText(reqs[r].provider, p[i]) = m[i].content
                  /\ p[i].role = VendorRole(reqs[r].provider, m[i].role)
                  /\ reqs[r].provider = "Google" => Len(p[i].parts) = 1

\* C17 witness: the Google adapter was called with a system message, an
\* assistant message and the new user message.
C17_Witness ==
    \E r \in Reqs :
      /\ reqs[r].vendor_calls > 0 /\ reqs[r].provider = "Google"
      /\ Len(reqs[r].payload) = 3
      /\ reqs[r].ai_messages[1].role = "system"
      /\ reqs[r].ai_messages[2].role = "assistant"
      /\ reqs[r].payload[2].role = "model"

Rank(pc) ==
    CASE pc = "idle" -> 0
      [] pc = "resolving" -> 1
      [] pc = "assembling" -> 2
      [] pc = "dispatching" -> 3
      [] pc = "user_seq" -> 4
      [] pc = "user_insert" -> 5
      [] pc = "assistant_seq" -> 6
      [] pc = "assistant_insert" -> 7
      [] pc = "tokens" -> 8
      [] pc = "done" -> 9

\* the stored token usage of the rows a request wrote
TokensOf(rec, rows) == {m.tokens_used : m \in {x \in rows : x.id \in WrittenBy(rec)}}

\* C20: a completion request moves through chat validation, credential
\* lookup, context load, vendor call, user insert, assistant insert and token
\* update in that order, one step at a time or to its end; the user message
\* is inserted only after the vendor returned a result, the assistant message
\* only after the user message, the token usage only after both.
C20_StepOrder ==
    [][\A r \in Reqs :
         LET a == reqs[r]
             b == reqs'[r]
         IN  /\ a.pc /= b.pc
                => /\ Rank(b.pc) > Rank(a.pc)
                   /\ b.pc /= "done" => Rank(b.pc) = Rank(a.pc) + 1
             /\ b.api_key /= a.api_key => a.pc = "resolving"
             /\ (a.pc /= "idle" /\ b.ai_messages /= a.ai_messages)
                => a.pc = "assembling" /\ a.api_key /= None
             /\ b.vendor_calls /= a.vendor_calls
                => a.pc = "dispatching" /\ a.ai_messages /= <<>>
             /\ b.user_message /= a.user_message
                => /\ a.pc = "user_insert" /\ a.ai_response /= None
                   /\ a.assistant_message = None
             /\ b.assistant_message /= a.assistant_message
                => /\ a.pc = "assistant_insert" /\ a.ai_response /= None
                   /\ a.user_message /= None
             /\ TokensOf(b, messages') /= TokensOf(a, messages)
                => \/ a.pc = "tokens" /\ a.assistant_message /= None
                   \/ WrittenBy(b) /= WrittenBy(a)]_vars

\* C20 witness: a request has gone through every step, the token update
\* included, and was answered 200.
C20_Witness ==
    \E r \in Reqs :
      /\ reqs[r].pc = "done" /\ reqs[r].status = 200
      /\ \E m \in messages :
           m.id \in reqs[r].assistant_message /\ m.tokens_used /= None

\* C21: the message list a completion assembles for a chat holding n messages
\* has n + 1 entries: the n stored messages, each once, in ascending
\* sequence_number, with their role and content, then one entry with role
\* user and the request's message text.
C21_ContextIsHistoryPlusUserTurn ==
    [][\A r \in Reqs :
         (reqs[r].pc = "assembling" /\ reqs'[r].ai_messages /= <<>>)
         => LET rows == ChatMessages(reqs[r].chat_id)
                n == Cardinality(rows)
                m == reqs'[r].ai_messages
            IN  /\ Len(m) = n + 1
                /\ m[n + 1] = [role |-> "user", content |-> reqs[r].message]
                /\ \E f \in [1..n -> rows] :
                     /\ \A i, j \in 1..n :
                          i < j => /\ f[i] /= f[j]
                                   /\ f[i].sequence_number <= f[j].sequence_number
                     /\ \A i \in 1..n :
                          /\ m[i].role = f[i].role
                          /\ m[i].content = f[i].content]_vars

\* C21 witness: a context of three entries was assembled from two stored
\* messages of different role and text.
C21_Witness ==
    \E r \in Reqs :
      /\ reqs[r].pc = "dispatching" /\ Len(reqs[r].ai_messages) = 3
      /\ reqs[r].ai_messages[1].role /= reqs[r].ai_messages[2].role
      /\ reqs[r].ai_messages[1].content /= reqs[r].ai_messages[2].content

\* C22: a completion request calls the vendor at most once, whether the call
\* succeeds or fails, and a request that has ended calls it no more.
C22_AtMostOneVendorCall ==
    [][\A r \in Reqs :
         /\ reqs'[r].vendor_calls <= 1
         /\ reqs'[r].vendor_calls /= reqs[r].vendor_calls
            => reqs[r].vendor_calls = 0 /\ reqs'[r].pc /= "dispatching"]_vars

\* C22 witness: one request ended after a failed vendor call and another
\* after a successful one, each having called the vendor once.
C22_Witness ==
    \E r, q \in Reqs :
      /\ reqs[r].pc = "done" /\ ProviderFailed(reqs[r])
      /\ reqs[r].vendor_calls = 1
      /\ reqs[q].pc = "done" /\ reqs[q].status = 200
      /\ reqs[q].vendor_calls = 1

\* C23: no step changes the sequence_number or the chat_id of a message row
\* that exists before and after it.
C23_SequenceNumberImmutable ==
    [][\A m \in messages : \A n \in messages' :
         m.id = n.id => /\ n.sequence_number = m.sequence_number
                        /\ n.chat_id = m.chat_id]_vars

\* C23 witness: a message that got its token usage from the completion flow
\* and was then edited through update_message.
C23_Witness ==
    \E m \in messages : m.content = "edited" /\ m.tokens_used /= None

RECURSIVE ConcatContent(_)
\* the contents of the chunks, joined in order
ConcatContent(chunks) ==
    IF chunks = <<>> THEN ""
    ELSE Head(chunks).content \o ConcatContent(Tail(chunks))

\* C24: stream_chat of each adapter yields, when the underlying call
\* succeeds, a finite non-empty sequence of chunks whose last chunk and no
\* other is marked done and whose contents joined equal the content chat()
\* returned; when the call fails it yields an error and no chunk.
C24_StreamEndsWithDone ==
    \A r \in Reqs :
      reqs[r].op = "stream_chat"
      => IF reqs[r].ai_response = None
         THEN reqs[r].response = None
         ELSE /\ reqs[r].response /= None
              /\ \A chunks \in reqs[r].response :
                   /\ Len(chunks) >= 1
                   /\ \A i \in 1..Len(chunks) : chunks[i].done <=> i = Len(chunks)
                   /\ \A a \in reqs[r].ai_response :
                        ConcatContent(chunks) = a.content

\* C24 witness: the Anthropic adapter has streamed a successful call.
C24_Witness ==
    \E r \in Reqs :
      /\ reqs[r].op = "stream_chat" /\ reqs[r].provider = "Anthropic"
      /\ reqs[r].ai_response /= None /\ reqs[r].response /= None

\* the call of task k is a set_default by the owner of the key it names
OwnerSetDefault(k) ==
    /\ kops[k].op = "set_default"
    /\ \E x \in keys : x.id = kops[k].id /\ x.user_id = kops[k].user_id

\* C25: when two set_default calls by the owner on two different credentials
\* of one (user, provider) pair have both committed (the step is the commit
\* of the second), exactly one of the two credentials is the default and no
\* other credential of the pair is, however their statements interleaved.
C25_ConcurrentSetDefault ==
    [][\A j, k \in KeyOps :
         (/\ kops[j].pc = "ok"
          /\ kops[k].pc = "sd_commit" /\ kops'[k].pc = "ok"
          /\ OwnerSetDefault(j) /\ OwnerSetDefault(k)
          /\ kops[j].id /= kops[k].id
          /\ kops[j].user_id = kops[k].user_id
          /\ kops[j].provider = kops[k].provider)
         => LET pair == {x \in keys' : /\ x.user_id = kops[k].user_id
                                        /\ x.provider = kops[k].provider}
                defaults == {x.id : x \in {y \in pair : y.is_default}}
            IN  /\ Cardinality(defaults) = 1
                /\ defaults \subseteq {kops[j].id, kops[k].id}]_vars

\* C25 witness: both calls have committed, and the credential that was not
\* the default at the start is the only default of the pair now.
C25_Witness ==
    /\ \E j, k \in KeyOps :
         /\ kops[j].pc = "ok" /\ kops[k].pc = "ok"
         /\ OwnerSetDefault(j) /\ OwnerSetDefault(k)
         /\ kops[j].id = 1 /\ kops[k].id = 2
    /\ \E x \in keys : x.id = 2 /\ x.is_default
    /\ \E x \in keys : x.id = 1 /\ ~x.is_default

\* C26: a set_default(id, user_id) whose id names a credential of another
\* user changes no credential at all.
C26_SetDefaultOwnRowsOnly ==
    [][\A k \in KeyOps :
         (/\ kops[k].op = "set_default" /\ kops'[k] /= kops[k]
          /\ ~OwnerSetDefault(k))
         => keys' = keys]_vars

\* C27: a create_key call answered with an error has left no new credential
\* row in the table.
C27_FailedCreateKeyPersistsNothing ==
    \A k \in KeyOps :
      (kops[k].op = "create_key" /\ kops[k].pc = "err")
      => ~ \E x \in keys : x.id = kops[k].id

\* C28: with the operations one after the other, of any two messages present
\* in one chat the one created earlier (the smaller id: ids are handed out
\* in creation order) has the strictly smaller sequence_number.
C28_SequenceFollowsCreation ==
    \A m, n \in messages :
      (m.chat_id = n.chat_id /\ m.id < n.id)
      => m.sequence_number < n.sequence_number

\* C28 witness: the second message has been deleted and a message created
\* after that stands in chat 1 behind the first message, under the number 2.
C28_Witness ==
    /\ \E m, n \in messages :
         /\ m.chat_id = 1 /\ n.chat_id = 1
         /\ m.id = 1 /\ n.id >= 3 /\ n.sequence_number = 2
    /\ ~ \E x \in messages : x.id = 2
    /\ \A x \in messages : x.chat_id = 1

\* C29: no step of auth_middleware changes display_name, image_url or email
\* of a user row that is already stored, however the requests interleave.
C29_AuthKeepsExistingUser ==
    [][\A r \in Reqs :
         (reqs[r].pc \in {"idle", "auth_get", "auth_upsert"} /\ reqs'[r] /= reqs[r])
         => \A u \in users : u \in users']_vars

\* C30: for every page and page_size a caller can send, page = 0 included,
\* the offset (page - 1) * page_size of list_chats is computed without
\* underflow or overflow and is not negative as a signed 64-bit value.
C30_OffsetInRange ==
    \A r \in Reqs :
      (reqs[r].op = "list_chats" /\ reqs[r].pc = "done"
         /\ reqs[r].pagination /= None)
      => /\ ~reqs[r].overflowed
         /\ ~reqs[r].panicked
         /\ \A offset \in reqs[r].offset : ~AsI64Negative(offset)

====
